---- MODULE Spec2Model ----
(***************************************************************************)
(* Tag-driven start/stop of DocumentDB clusters: the two Lambda handlers   *)
(* of src/start-docdb-cluster.py and src/stop-docdb-cluster.py, run        *)
(* against a provider whose cluster status is the only shared state.       *)
(*                                                                         *)
(* A Python str is a sequence of one-character strings, so that lower(),   *)
(* split() and strip() are computed and not assumed.  Python's None is the *)
(* value None below, which no str equals.                                  *)
(***************************************************************************)
EXTENDS Integers, Sequences, FiniteSets, TLC

VARIABLES
    env,          \* per function: the environment it was deployed with
    status,       \* provider: the status of each cluster
    arn,          \* provider: the DBClusterArn each descriptor carries
    taglist,      \* provider: the TagList of each cluster
    pc,           \* per function: idle / paginate / cluster / done / raised
    regions,      \* per function: the list the for-loop iterates
    ri,           \* per function: index of the region being scanned
    pi,           \* per function: index of the page being fetched or read
    page,         \* per function: the DBClusters of the page in hand
    ci,           \* per function: index of the cluster being processed
    results,      \* per function: the results list
    log,          \* per function: the log lines of this invocation
    api,          \* per function: the provider calls of this invocation
    summary,      \* per function: the value the handler returned
    budget,       \* per function: invocations still to come
    faults,       \* provider faults (throttling, network) still to come
    outside,      \* status changes asked for from outside the functions, still to come
    prevResults,  \* per function: the previous invocation's result list
    quiet         \* per function: no status changed since that invocation began

vars == <<env, status, arn, taglist, pc, regions, ri, pi, page, ci, results,
          log, api, summary, budget, faults, outside, prevResults, quiet>>

(***************************************************************************)
(* Bounds of the model.                                                    *)
(***************************************************************************)
MaxInvocations == 2
MaxFaults == 1
MaxOutside == 1
MaxRegionsLen == 3
MaxTagLen == 2

(***************************************************************************)
(* Strings.                                                                *)
(***************************************************************************)
None == <<"None">>

UpperChars == <<"A","B","C","D","E","F","G","H","I","J","K","L","M",
                "N","O","P","Q","R","S","T","U","V","W","X","Y","Z">>

LowerChars == <<"a","b","c","d","e","f","g","h","i","j","k","l","m",
                "n","o","p","q","r","s","t","u","v","w","x","y","z">>

LowerChar(ch) ==
    IF \E i \in 1..Len(UpperChars) : UpperChars[i] = ch
    THEN LowerChars[CHOOSE i \in 1..Len(UpperChars) : UpperChars[i] = ch]
    ELSE ch

\* str.lower()
Lower(s) == [i \in 1..Len(s) |-> LowerChar(s[i])]

\* str.strip(): leading and trailing blanks removed
RECURSIVE Strip(_)
Strip(s) ==
    IF s = <<>> THEN s
    ELSE IF Head(s) = " " THEN Strip(Tail(s))
    ELSE IF s[Len(s)] = " " THEN Strip(SubSeq(s, 1, Len(s) - 1))
    ELSE s

\* str.split(","): always at least one piece, empty pieces kept
RECURSIVE Split(_)
Split(s) ==
    IF \A i \in 1..Len(s) : s[i] # ","
    THEN <<s>>
    ELSE LET k == CHOOSE i \in 1..Len(s) :
                     s[i] = "," /\ \A j \in 1..(i - 1) : s[j] # ","
         IN  <<SubSeq(s, 1, k - 1)>> \o Split(SubSeq(s, k + 1, Len(s)))

\* [x for x in xs if x]
RECURSIVE NonEmpty(_)
NonEmpty(xs) ==
    IF xs = <<>> THEN <<>>
    ELSE IF Head(xs) = <<>> THEN NonEmpty(Tail(xs))
    ELSE <<Head(xs)>> \o NonEmpty(Tail(xs))

\* os.getenv(name, default)
Getenv(d, name, default) == IF env[d][name] = None THEN default ELSE env[d][name]

\* every str of length at most n over the alphabet
RECURSIVE Strings(_, _)
Strings(alphabet, n) ==
    IF n = 0 THEN {<<>>}
    ELSE LET shorter == Strings(alphabet, n - 1)
         IN  shorter \cup {Append(s, ch) : s \in shorter, ch \in alphabet}

(***************************************************************************)
(* Module-level configuration of each function.                            *)
(***************************************************************************)
Dirs == {"start", "stop"}

DefaultTagKey ==
    <<"w","o","r","k","-","o","n","-","b","u","s","i","n","e","s","s","-","t","i","m","e">>

TAG_KEY(d) == Getenv(d, "TAG_KEY", DefaultTagKey)

TAG_VALUE(d) == Lower(Getenv(d, "TAG_VALUE", <<"t","r","u","e">>))

REGIONS(d) ==
    LET pieces == Split(Getenv(d, "REGIONS", <<>>))
    IN  NonEmpty([i \in 1..Len(pieces) |-> Strip(pieces[i])])

DRY_RUN(d) == Lower(Getenv(d, "DRY_RUN", <<"f","a","l","s","e">>)) = <<"t","r","u","e">>

FallbackRegion == <<"u","s","-","e","a","s","t","-","1">>

\* as _regions_to_check, were the result [session.region_name] with no default
_regions_to_check_NoDefault(d) ==
    IF REGIONS(d) # <<>> THEN REGIONS(d) ELSE <<env[d].region_name>>

\* session.region_name or "us-east-1"
_regions_to_check(d) ==
    IF REGIONS(d) # <<>>
    THEN REGIONS(d)
    ELSE <<IF env[d].region_name \in {None, <<>>}
           THEN FallbackRegion
           ELSE env[d].region_name>>

(***************************************************************************)
(* The provider: two regions with clusters, a third with none.  A          *)
(* DBClusterIdentifier is unique within a region only.                     *)
(***************************************************************************)
Clusters == {"c1", "c2", "c3", "c4"}

RegA == <<"a">>

RegB == <<"b">>

KnownRegions == {RegA, RegB, FallbackRegion}

\* describe_db_clusters pages of a region, as cluster resources
Layout(r) ==
    IF r = RegA THEN << <<"c1", "c2">>, <<"c3">> >>
    ELSE IF r = RegB THEN << <<"c4">> >>
    ELSE << <<>> >>

Identifier(c) == IF c \in {"c1", "c4"} THEN "x" ELSE IF c = "c2" THEN "y" ELSE "z"

RegionOf(c) == IF c = "c4" THEN RegB ELSE RegA

ClusterAt(r, id) == CHOOSE c \in Clusters : RegionOf(c) = r /\ Identifier(c) = id

Stopped == <<"s","t","o","p","p","e","d">>

Available == <<"a","v","a","i","l","a","b","l","e">>

Starting == <<"s","t","a","r","t","i","n","g">>

Stopping == <<"s","t","o","p","p","i","n","g">>

Descriptor(c) ==
    [DBClusterIdentifier |-> Identifier(c), DBClusterArn |-> arn[c], Status |-> status[c]]

\* one page of the paginator's response, read at the moment of the call
DescribeDbClusters(r, p) ==
    LET names == Layout(r)[p] IN [i \in 1..Len(names) |-> Descriptor(names[i])]

\* start_db_cluster / stop_db_cluster: accepted in one status only,
\* InvalidDBClusterStateFault otherwise
Accepts(d, c) == Lower(status[c]) = (IF d = "start" THEN Stopped ELSE Available)

Transition(d) == IF d = "start" THEN Starting ELSE Stopping

\* a provider call may also fail for a reason of its own (throttling, network)
FaultChoices == IF faults > 0 THEN {"ok", "error"} ELSE {"ok"}

(***************************************************************************)
(* The pure parts of the handlers.                                         *)
(***************************************************************************)
\* {t["Key"]: t.get("Value", "") for t in resp.get("TagList", [])}
_cluster_tags(resp) ==
    LET keys == {resp[i].Key : i \in 1..Len(resp)}
        last(k) == CHOOSE i \in 1..Len(resp) :
                       resp[i].Key = k /\ \A j \in (i + 1)..Len(resp) : resp[j].Key # k
    IN  [k \in keys |-> IF resp[last(k)].Value = None THEN <<>> ELSE resp[last(k)].Value]

\* tags.get(key)
Get(tags, key) == IF key \in DOMAIN tags THEN tags[key] ELSE None

\* as _should_start, were the key looked up whatever its case
_should_start_AnyCase(tags) ==
    \E k \in DOMAIN tags :
       Lower(k) = Lower(TAG_KEY("start")) /\ Lower(tags[k]) = TAG_VALUE("start")

_should_start(tags) ==
    LET val == Get(tags, TAG_KEY("start"))
    IN  (val # None) /\ (Lower(val) = TAG_VALUE("start"))

_should_stop(tags) ==
    LET val == Get(tags, TAG_KEY("stop"))
    IN  (val # None) /\ (Lower(val) = TAG_VALUE("stop"))

Eligible(d, tags) == IF d = "start" THEN _should_start(tags) ELSE _should_stop(tags)

\* as LoggedTags, were the keys compared as they are
LoggedTags_Exact(d, tags) == [k \in {x \in DOMAIN tags : x = TAG_KEY(d)} |-> tags[k]]

\* {k: tags[k] for k in tags if k.lower() == TAG_KEY.lower()}
LoggedTags(d, tags) ==
    [k \in {x \in DOMAIN tags : Lower(x) = Lower(TAG_KEY(d))} |-> tags[k]]

\* as NoArn, were the test "arn is None": an empty ARN goes on to the tag fetch
NoArn_NoneOnly(a) == a = None

\* not arn
NoArn(a) == a = None \/ a = <<>>

\* c.get("Status", "").lower()
StatusOf(c) == Lower(IF c.Status = None THEN <<>> ELSE c.Status)

\* the status the action is gated on
Gate(d) == IF d = "start" THEN Stopped ELSE Available

\* as CallsProvider, were the DRY_RUN test of _start_cluster / _stop_cluster missing
CallsProvider_Always(d) == TRUE

\* _start_cluster / _stop_cluster reach the provider unless DRY_RUN
CallsProvider(d) == ~DRY_RUN(d)

ActionOp(d) == IF d = "start" THEN "start_db_cluster" ELSE "stop_db_cluster"

ResultKey(d) == IF d = "start" THEN "started" ELSE "stopped"

ResultEntry(d, cluster_id, region) ==
    [cluster |-> cluster_id, region |-> region,
     action |-> IF ~DRY_RUN(d) THEN ResultKey(d) ELSE "dry-run"]

\* as Appended, were results.append placed before the call
Appended_Always(d, res, cluster_id, region, outcome) ==
    Append(res, [cluster |-> cluster_id, region |-> region,
                 action |-> IF ~DRY_RUN(d) THEN (IF d = "start" THEN "started" ELSE "stopped")
                            ELSE "dry-run"])

\* results.append follows the call inside the try: reached only if it returned
Appended(d, res, cluster_id, region, outcome) ==
    IF outcome = "ok" THEN Append(res, ResultEntry(d, cluster_id, region)) ELSE res

Summary(d, res) ==
    [key |-> ResultKey(d), results |-> res, dry_run |-> DRY_RUN(d),
     regions |-> _regions_to_check(d), tag_key |-> TAG_KEY(d), tag_value |-> TAG_VALUE(d)]

Line(kind, cluster_id, region) ==
    [kind |-> kind, cluster |-> cluster_id, region |-> region,
     status |-> <<>>, eligible_by_tag |-> FALSE, tags |-> <<>>]

EvalLine(d, cluster_id, region, st, tags) ==
    [kind |-> "eval", cluster |-> cluster_id, region |-> region,
     status |-> st, eligible_by_tag |-> Eligible(d, tags), tags |-> LoggedTags(d, tags)]

Call(op, region, c, outcome) ==
    [op |-> op, region |-> region, cluster |-> c, outcome |-> outcome]

(***************************************************************************)
(* Where the loops go next.                                                *)
(***************************************************************************)
Pos(p, r, g, c) == [pc |-> p, ri |-> r, pi |-> g, ci |-> c]

\* after the last cluster of page pi[d]: the next page, the next region, or return
AfterPage(d) ==
    IF pi[d] < Len(Layout(regions[d][ri[d]])) THEN Pos("paginate", ri[d], pi[d] + 1, 0)
    ELSE IF ri[d] < Len(regions[d]) THEN Pos("paginate", ri[d] + 1, 1, 0)
    ELSE Pos("done", ri[d], pi[d], 0)

\* continue: the next cluster of the page in hand
AfterCluster(d) ==
    IF ci[d] < Len(page[d]) THEN Pos("cluster", ri[d], pi[d], ci[d] + 1) ELSE AfterPage(d)

Raised(d) == Pos("raised", ri[d], pi[d], ci[d])

\* as OnError, were the try around the whole loop body and the region's paging
OnError_Swallowed(d, op) == IF op = "describe_db_clusters" THEN AfterPage(d) ELSE AfterCluster(d)

\* as OnError, were there no try at all
OnError_Uncaught(d, op) == Raised(d)

\* the try of the handler encloses the action call alone
OnError(d, op) == IF op = ActionOp(d) THEN AfterCluster(d) ELSE Raised(d)

(***************************************************************************)
(* The handlers, one step per provider call.  The tag fetch and the action *)
(* call of one cluster are one step: tags never change, so no other step   *)
(* can be told apart by running between them.                              *)
(***************************************************************************)
Goto(d, pos, pg, res, lg, calls) ==
    /\ pc' = [pc EXCEPT ![d] = pos.pc]
    /\ ri' = [ri EXCEPT ![d] = pos.ri]
    /\ pi' = [pi EXCEPT ![d] = pos.pi]
    /\ ci' = [ci EXCEPT ![d] = pos.ci]
    /\ page' = [page EXCEPT ![d] = pg]
    /\ results' = [results EXCEPT ![d] = res]
    /\ log' = [log EXCEPT ![d] = lg]
    /\ api' = [api EXCEPT ![d] = calls]
    /\ summary' = [summary EXCEPT ![d] = IF pos.pc = "done" THEN <<Summary(d, res)>> ELSE <<>>]
    /\ UNCHANGED <<env, arn, taglist, regions, budget, outside, prevResults>>

\* the function is invoked: handler(event, context) up to the first provider call
Invoke(d) ==
    /\ pc[d] \in {"idle", "done", "raised"}
    /\ budget[d] > 0
    /\ budget' = [budget EXCEPT ![d] = @ - 1]
    /\ pc' = [pc EXCEPT ![d] = "paginate"]
    /\ regions' = [regions EXCEPT ![d] = _regions_to_check(d)]
    /\ ri' = [ri EXCEPT ![d] = 1]
    /\ pi' = [pi EXCEPT ![d] = 1]
    /\ ci' = [ci EXCEPT ![d] = 0]
    /\ page' = [page EXCEPT ![d] = <<>>]
    /\ results' = [results EXCEPT ![d] = <<>>]
    /\ log' = [log EXCEPT ![d] = <<>>]
    /\ api' = [api EXCEPT ![d] = <<>>]
    /\ summary' = [summary EXCEPT ![d] = <<>>]
    /\ prevResults' = [prevResults EXCEPT ![d] =
                          IF pc[d] = "done" /\ quiet[d] THEN <<summary[d][1].results>> ELSE <<>>]
    /\ quiet' = [quiet EXCEPT ![d] = TRUE]
    /\ UNCHANGED <<env, status, arn, taglist, faults, outside>>

\* for page in paginator.paginate(): the next describe_db_clusters call
DescribePage(d) ==
    /\ pc[d] = "paginate"
    /\ LET region == regions[d][ri[d]]
           lg == IF pi[d] = 1 THEN Append(log[d], Line("region", "", region)) ELSE log[d]
           failed == Append(api[d], Call("describe_db_clusters", region, "", "error"))
           called == Append(api[d], Call("describe_db_clusters", region, "", "ok"))
       IN  IF region \notin KnownRegions
           THEN /\ Goto(d, OnError(d, "describe_db_clusters"), <<>>, results[d], lg, failed)
                /\ UNCHANGED faults
           ELSE \E f \in FaultChoices :
                  IF f = "error"
                  THEN /\ Goto(d, OnError(d, "describe_db_clusters"), <<>>, results[d], lg, failed)
                       /\ faults' = faults - 1
                  ELSE LET pg == DescribeDbClusters(region, pi[d])
                       IN  /\ Goto(d, IF pg = <<>> THEN AfterPage(d)
                                      ELSE Pos("cluster", ri[d], pi[d], 1),
                                   pg, results[d], lg, called)
                           /\ UNCHANGED faults
    /\ UNCHANGED <<status, quiet>>

\* one iteration of: for c in page.get("DBClusters", [])
ProcessCluster(d) ==
    /\ pc[d] = "cluster"
    /\ LET c == page[d][ci[d]]
           cluster_id == c.DBClusterIdentifier
           region == regions[d][ri[d]]
           st == StatusOf(c)
           target == ClusterAt(region, cluster_id)
           tags == _cluster_tags(taglist[target])
           tagsFailed == Append(api[d], Call("list_tags_for_resource", region, target, "error"))
           tagsRead == Append(api[d], Call("list_tags_for_resource", region, target, "ok"))
           evaluated == Append(log[d], EvalLine(d, cluster_id, region, st, tags))
       IN  IF NoArn(c.DBClusterArn)
           THEN /\ Goto(d, AfterCluster(d), page[d], results[d],
                        Append(log[d], Line("no-arn", cluster_id, region)), api[d])
                /\ UNCHANGED <<status, quiet, faults>>
           ELSE \E f \in FaultChoices :
                  IF f = "error"
                  THEN /\ Goto(d, OnError(d, "list_tags_for_resource"), page[d], results[d],
                               log[d], tagsFailed)
                       /\ faults' = faults - 1
                       /\ UNCHANGED <<status, quiet>>
                  ELSE IF ~Eligible(d, tags)
                  THEN /\ Goto(d, AfterCluster(d), page[d], results[d], evaluated, tagsRead)
                       /\ UNCHANGED <<status, quiet, faults>>
                  ELSE IF st # Gate(d)
                  THEN /\ Goto(d, AfterCluster(d), page[d], results[d],
                               Append(evaluated, Line("wrong-status", cluster_id, region)),
                               tagsRead)
                       /\ UNCHANGED <<status, quiet, faults>>
                  ELSE IF ~CallsProvider(d)
                  THEN /\ Goto(d, AfterCluster(d), page[d],
                               Appended(d, results[d], cluster_id, region, "ok"),
                               Append(evaluated, Line("dry-run", cluster_id, region)),
                               tagsRead)
                       /\ UNCHANGED <<status, quiet, faults>>
                  ELSE \E g \in FaultChoices :
                         LET outcome == IF g = "error" THEN "error"
                                        ELSE IF Accepts(d, target) THEN "ok"
                                        ELSE "invalid"
                             kind == IF outcome = "ok" THEN "initiated"
                                     ELSE IF outcome = "invalid" THEN "invalid-state"
                                     ELSE "failure"
                         IN  /\ Goto(d,
                                     IF outcome = "ok" THEN AfterCluster(d)
                                     ELSE OnError(d, ActionOp(d)),
                                     page[d],
                                     Appended(d, results[d], cluster_id, region, outcome),
                                     Append(evaluated, Line(kind, cluster_id, region)),
                                     Append(tagsRead, Call(ActionOp(d), region, target, outcome)))
                             /\ faults' = IF g = "error" THEN faults - 1 ELSE faults
                             /\ IF outcome = "ok"
                                THEN /\ status' = [status EXCEPT ![target] = Transition(d)]
                                     /\ quiet' = [x \in Dirs |-> FALSE]
                                ELSE UNCHANGED <<status, quiet>>

\* the status of a cluster moves without the functions: the provider completes a
\* transition, or somebody else starts a stopped cluster or stops an available one
Settle(c) ==
    /\ IF status[c] \in {Starting, Stopping}
       THEN /\ status' = [status EXCEPT ![c] = IF status[c] = Starting THEN Available ELSE Stopped]
            /\ UNCHANGED outside
       ELSE /\ outside > 0
            /\ outside' = outside - 1
            /\ status' = [status EXCEPT ![c] =
                             IF Lower(status[c]) = Stopped THEN Starting ELSE Stopping]
    /\ quiet' = [x \in Dirs |-> FALSE]
    /\ UNCHANGED <<env, arn, taglist, pc, regions, ri, pi, page, ci, results, log, api,
                   summary, budget, faults, prevResults>>

Next ==
    \/ \E d \in Dirs : Invoke(d)
    \/ \E d \in Dirs : DescribePage(d)
    \/ \E d \in Dirs : ProcessCluster(d)
    \/ \E c \in Clusters : Settle(c)

(***************************************************************************)
(* Initial states: a deployment (the two environments) and a provider.     *)
(***************************************************************************)
Tag(k, v) == [Key |-> k, Value |-> v]

Environment(key, value, regs, dry, ambient) ==
    [TAG_KEY |-> key, TAG_VALUE |-> value, REGIONS |-> regs, DRY_RUN |-> dry,
     region_name |-> ambient]

Idle ==
    /\ pc = [d \in Dirs |-> "idle"]
    /\ regions = [d \in Dirs |-> <<>>]
    /\ ri = [d \in Dirs |-> 0]
    /\ pi = [d \in Dirs |-> 0]
    /\ ci = [d \in Dirs |-> 0]
    /\ page = [d \in Dirs |-> <<>>]
    /\ results = [d \in Dirs |-> <<>>]
    /\ log = [d \in Dirs |-> <<>>]
    /\ api = [d \in Dirs |-> <<>>]
    /\ summary = [d \in Dirs |-> <<>>]
    /\ prevResults = [d \in Dirs |-> <<>>]
    /\ quiet = [d \in Dirs |-> TRUE]

\* a tag that makes its cluster eligible under TAG_KEY=k, TAG_VALUE=ON
Matching == <<Tag(<<"k">>, <<"O","n">>)>>

\* the environments of the two functions, alike but for DRY_RUN
Deployed(key, value, regs, ambient, dry) ==
    env = [d \in Dirs |-> Environment(key, value, regs, dry[d], ambient)]

\* the provider's clusters, all eligible under TAG_KEY=k but the one named
Provider(odd, arnOdd, tagsOdd) ==
    /\ arn = [c \in Clusters |-> IF c = odd THEN arnOdd ELSE <<"n">>]
    /\ taglist = [c \in Clusters |-> IF c = odd THEN tagsOdd ELSE Matching]

Statuses(s1, s2, s3, s4) ==
    status = [c \in Clusters |->
                IF c = "c1" THEN s1 ELSE IF c = "c2" THEN s2 ELSE IF c = "c3" THEN s3 ELSE s4]

\* one function is invoked once, the other never
OneInvocation == \E d \in Dirs : budget = [x \in Dirs |-> IF x = d THEN 1 ELSE 0]

\* REGIONS (and the ambient region it falls back to) of the deployments checked
RegionSettings ==
    { <<<<"a",",","b">>, None>>, <<<<"a",","," ","a">>, None>>, <<None, RegB>> }

DryRunSettings == { None, <<"T","r","u","e">> }

\* what the second cluster of the first page may look like
Oddities ==
    { [arn |-> None, tags |-> Matching],
      [arn |-> <<>>, tags |-> Matching],
      [arn |-> <<"n">>, tags |-> <<Tag(<<"K">>, <<"o","n">>)>>],
      [arn |-> <<"n">>, tags |-> <<Tag(<<"k">>, None)>>],
      [arn |-> <<"n">>, tags |-> Matching] }

\* one invocation of either function, with provider faults
Init ==
    /\ Idle
    /\ \E rs \in RegionSettings, dry \in DryRunSettings :
         Deployed(<<"k">>, <<"O","N">>, rs[1], rs[2], [d \in Dirs |-> dry])
    /\ \E odd \in Oddities : Provider("c2", odd.arn, odd.tags)
    /\ \/ Statuses(<<"S","t","o","p","p","e","d">>, Stopped, Stopped, Stopped)
       \/ Statuses(<<"A","V","A","I","L","A","B","L","E">>, Available, Available, Available)
       \/ Statuses(Stopped, Available, Starting, Stopping)
    /\ OneInvocation
    /\ faults = MaxFaults
    /\ outside = 0

Spec == Init /\ [][Next]_vars

\* one live invocation of either function over clusters that are all eligible,
\* with provider faults and status changes from outside
InitOutside ==
    /\ Idle
    /\ Deployed(<<"k">>, <<"O","N">>, <<"a",",","b">>, None, [d \in Dirs |-> None])
    /\ Provider("c2", <<"n">>, Matching)
    /\ \/ Statuses(Stopped, Stopped, Stopped, Stopped)
       \/ Statuses(Available, Available, Available, Available)
    /\ OneInvocation
    /\ faults = MaxFaults
    /\ outside = MaxOutside

SpecOutside == InitOutside /\ [][Next]_vars

\* both functions live and invoked once each over the one cluster of a region,
\* whose status may also be changed from outside
InitRace ==
    /\ Idle
    /\ \E regs \in { <<"b">>, <<"b",",","b">> } :
         Deployed(<<"k">>, <<"O","N">>, regs, None, [d \in Dirs |-> None])
    /\ Provider("c2", <<"n">>, Matching)
    /\ \/ Statuses(Stopped, Stopped, Stopped, Stopped)
       \/ Statuses(Available, Available, Available, Available)
       \/ Statuses(Stopped, Available, Starting, Stopping)
    /\ budget = [d \in Dirs |-> 1]
    /\ faults = 0
    /\ outside = MaxOutside

SpecRace == InitRace /\ [][Next]_vars

\* the start function in dry-run, the stop function in dry-run or live, each
\* invoked again and again
InitDry ==
    /\ Idle
    /\ \E dryStop \in { None, <<"T","R","U","E">> } :
         Deployed(<<"k">>, <<"O","N">>, <<"a",",","b">>, None,
                  [d \in Dirs |-> IF d = "start" THEN <<"T","r","u","e">> ELSE dryStop])
    /\ Provider("c2", <<"n">>, Matching)
    /\ Statuses(Stopped, Available, Starting, Stopped)
    /\ budget = [d \in Dirs |-> MaxInvocations]
    /\ faults = 0
    /\ outside = 0

SpecDry == InitDry /\ [][Next]_vars

\* the tag values and TAG_VALUE settings tried
TagValues == Strings({"v", "V"}, MaxTagLen)

\* the tag lists tried: none, one tag, or one tag followed by a tag of key k or K
TagLists ==
    LET first == {Tag(k, v) : k \in {<<"k">>, <<"K">>, DefaultTagKey},
                              v \in TagValues \cup {None, <<"T","r","u","e">>}}
        second == {Tag(<<"k">>, <<"v">>), Tag(<<"K">>, <<"v">>)}
    IN  {<<>>} \cup {<<t>> : t \in first} \cup {<<t, u>> : t \in first, u \in second}

\* one dry-run invocation of either function over the region of one cluster, for
\* every TAG_KEY, TAG_VALUE and tag list tried
InitElig ==
    /\ Idle
    /\ \E key \in {None, <<"k">>}, value \in TagValues \cup {None} :
         Deployed(key, value, <<"b">>, None, [d \in Dirs |-> <<"t","r","u","e">>])
    /\ \E tl \in TagLists : Provider("c4", <<"n">>, tl)
    /\ Statuses(Stopped, Available, Starting, Stopped)
    /\ OneInvocation
    /\ faults = 0
    /\ outside = 0

SpecElig == InitElig /\ [][Next]_vars

\* one dry-run invocation of either function for every REGIONS setting tried and
\* an ambient region that is unset, empty or b
InitRegions ==
    /\ Idle
    /\ \E regs \in Strings({"a", "b", " ", ","}, MaxRegionsLen) \cup {None},
          ambient \in {None, <<>>, RegB} :
         Deployed(<<"k">>, <<"O","N">>, regs, ambient, [d \in Dirs |-> <<"t","r","u","e">>])
    /\ Provider("c2", <<"n">>, Matching)
    /\ Statuses(Stopped, Available, Starting, Stopped)
    /\ OneInvocation
    /\ faults = 0
    /\ outside = 0

SpecRegions == InitRegions /\ [][Next]_vars

(***************************************************************************)
(* What the properties below speak of.                                     *)
(***************************************************************************)
Count(seq, Test(_)) == Cardinality({i \in 1..Len(seq) : Test(seq[i])})

IsAction(call) == call.op \in {"start_db_cluster", "stop_db_cluster"}

IsDryRunLine(line) == line.kind = "dry-run"

IsEval(line) == line.kind = "eval"

\* attempts of the action in this invocation: provider calls and dry-run simulations
Attempts(d) == Count(api[d], IsAction) + Count(log[d], IsDryRunLine)

Position(d) == Pos(pc[d], ri[d], pi[d], ci[d])

\* the cluster the handler is about to process: its descriptor, region and resource
Current(d) == page[d][ci[d]]

CurrentRegion(d) == regions[d][ri[d]]

CurrentCluster(d) == ClusterAt(CurrentRegion(d), Current(d).DBClusterIdentifier)

\* this step is the handler's iteration over Current(d)
Processes(d) == pc[d] = "cluster" /\ Position(d)' # Position(d)

\* what this step added to the log and to the provider's calls
NewLines(d) == SubSeq(log[d]', Len(log[d]) + 1, Len(log[d]'))

NewCalls(d) == SubSeq(api[d]', Len(api[d]) + 1, Len(api[d]'))

\* the tags the provider holds for a cluster: the last value given to each key
TagsOf(c) == _cluster_tags(taglist[c])

\* eligibility as specified: the literal key is present, values agree up to case
HasMatchingTag(d, T) ==
    /\ TAG_KEY(d) \in DOMAIN T
    /\ Lower(T[TAG_KEY(d)]) = Lower(Getenv(d, "TAG_VALUE", <<"t","r","u","e">>))

\* the descriptor's status, up to case, is the one the direction acts on
AtGate(d, c) ==
    c.Status # None /\ Lower(c.Status) = (IF d = "start" THEN Stopped ELSE Available)

MissingArn(c) == c.DBClusterArn = None \/ Len(c.DBClusterArn) = 0

\* this step fetched the tags of Current(d) and so evaluated it
Evaluates(d) ==
    /\ Processes(d)
    /\ ~MissingArn(Current(d))
    /\ NewCalls(d) # <<>>
    /\ NewCalls(d)[1] = Call("list_tags_for_resource", CurrentRegion(d), CurrentCluster(d), "ok")

\* C8: a cluster whose descriptor has no ARN, or an empty one, is skipped with a
\* warning: no provider call (tag fetch or action), no evaluation, no result
\* entry, and the loop goes on with the next cluster.
C8_NoArnSkipped ==
    [][\A d \in Dirs :
         (Processes(d) /\ MissingArn(Current(d))) =>
            /\ api[d]' = api[d]
            /\ results[d]' = results[d]
            /\ log[d]' = Append(log[d],
                                Line("no-arn", Current(d).DBClusterIdentifier, CurrentRegion(d)))
            /\ Position(d)' = AfterCluster(d)]_vars

\* a handler returned after skipping a cluster with an empty ARN and acting on a later one
C8_Witness ==
    \E d \in Dirs :
       /\ pc[d] = "done"
       /\ arn["c2"] = <<>>
       /\ \E i \in 1..Len(log[d]) : log[d][i].kind = "no-arn" /\ log[d][i].cluster = "y"
       /\ \E i \in 1..Len(results[d]) : results[d][i].cluster = "z"

\* the structured line the handler owes for the cluster it evaluates
OwedLine(d) ==
    LET T == TagsOf(CurrentCluster(d))
    IN  [kind |-> "eval",
         cluster |-> Current(d).DBClusterIdentifier,
         region |-> CurrentRegion(d),
         status |-> IF Current(d).Status = None THEN <<>> ELSE Lower(Current(d).Status),
         eligible_by_tag |-> HasMatchingTag(d, T),
         tags |-> [k \in {x \in DOMAIN T : Lower(x) = Lower(TAG_KEY(d))} |-> T[k]]]

\* C3: an evaluated cluster that is tag-ineligible, or eligible with a status off
\* the direction's gate, gets no action attempt and no result entry, and its
\* structured log line is emitted exactly once.
C3_IneligibleUntouched ==
    [][\A d \in Dirs :
         (Evaluates(d)
            /\ (~HasMatchingTag(d, TagsOf(CurrentCluster(d))) \/ ~AtGate(d, Current(d)))) =>
            /\ Attempts(d)' = Attempts(d)
            /\ Len(NewCalls(d)) = 1
            /\ results[d]' = results[d]
            /\ Count(NewLines(d), IsEval) = 1
            /\ NewLines(d)[1] = OwedLine(d)]_vars

\* a handler returned having logged, with its tag, a cluster whose key differs from
\* TAG_KEY in case only, and another one that was eligible off the gate
C3_Witness ==
    \E d \in Dirs :
       /\ pc[d] = "done"
       /\ \E i \in 1..Len(log[d]) :
             /\ log[d][i].kind = "eval" /\ log[d][i].cluster = "y"
             /\ ~log[d][i].eligible_by_tag
             /\ DOMAIN log[d][i].tags = {<<"K">>}
       /\ \E i \in 1..Len(log[d]) : log[d][i].kind = "wrong-status"
       /\ \A i \in 1..Len(results[d]) : results[d][i].cluster # "y"

IsEnumeration(call) == call.op \in {"describe_db_clusters", "list_tags_for_resource"}

\* this step is a failed describe_db_clusters or list_tags_for_resource call of d
EnumerationFails(d) ==
    /\ pc[d] \in {"paginate", "cluster"}
    /\ NewCalls(d) # <<>>
    /\ IsEnumeration(NewCalls(d)[Len(NewCalls(d))])
    /\ NewCalls(d)[Len(NewCalls(d))].outcome = "error"

\* C6: a provider error while enumerating clusters or fetching tags is not caught:
\* the handler raises, returns no summary, and evaluates and acts on nothing more.
C6_EnumerationErrorPropagates ==
    [][\A d \in Dirs :
         /\ EnumerationFails(d) => (pc[d]' = "raised" /\ summary[d]' = <<>>)
         /\ (pc[d] = "raised" /\ pc[d]' # "paginate") =>
               /\ pc[d]' = "raised" /\ summary[d]' = <<>>
               /\ log[d]' = log[d] /\ api[d]' = api[d] /\ results[d]' = results[d]]_vars

\* a tag fetch failed after an earlier cluster was acted on: the handler has raised,
\* a cluster of a later page was never reached
C6_Witness ==
    \E d \in Dirs :
       /\ pc[d] = "raised"
       /\ results[d] # <<>>
       /\ api[d][Len(api[d])] = Call("list_tags_for_resource", RegA, "c2", "error")
       /\ \A i \in 1..Len(log[d]) : log[d][i].cluster # "z"

SameCluster(a, b) == a.cluster = b.cluster /\ a.region = b.region

Distinct(seq) == \A i, j \in 1..Len(seq) : i # j => seq[i] # seq[j]

IsAccepted(call) == IsAction(call) /\ call.outcome = "ok"

\* C9 as claimed: whatever the configuration, no two entries of a result list have
\* the same cluster identifier and region.
C9_AsClaimed ==
    \A d \in Dirs :
       \A i, j \in 1..Len(results[d]) : i # j => ~SameCluster(results[d][i], results[d][j])

\* C9 as amended: the result list holds one entry per action that went through
\* (accepted by the provider, or simulated in dry-run), and no two entries have the
\* same cluster identifier and region when the list of regions names none twice.
C9_OnePerAction ==
    \A d \in Dirs :
       /\ Len(results[d]) = Count(api[d], IsAccepted) + Count(log[d], IsDryRunLine)
       /\ Distinct(regions[d]) =>
             \A i, j \in 1..Len(results[d]) :
                i # j => ~SameCluster(results[d][i], results[d][j])

\* a handler returned entries for the clusters named x of two regions
C9_Witness ==
    \E d \in Dirs :
       /\ pc[d] = "done"
       /\ Distinct(regions[d])
       /\ \E i, j \in 1..Len(results[d]) :
             /\ results[d][i].cluster = "x" /\ results[d][i].region = RegA
             /\ results[d][j].cluster = "x" /\ results[d][j].region = RegB

\* the entry the handler owes for the cluster it acts on
OwedEntry(d) ==
    [cluster |-> Current(d).DBClusterIdentifier,
     region |-> CurrentRegion(d),
     action |-> IF DRY_RUN(d) THEN "dry-run" ELSE IF d = "start" THEN "started" ELSE "stopped"]

\* this step evaluates a cluster that is tag-eligible and at the direction's gate
EvaluatesActionable(d) ==
    /\ Evaluates(d)
    /\ HasMatchingTag(d, TagsOf(CurrentCluster(d)))
    /\ AtGate(d, Current(d))

\* this step's action call raised: the provider refused it or failed
ActionFails(d) ==
    /\ Processes(d)
    /\ NewCalls(d) # <<>>
    /\ IsAction(NewCalls(d)[Len(NewCalls(d))])
    /\ NewCalls(d)[Len(NewCalls(d))].outcome # "ok"

\* C2 as claimed: an enumerated cluster that is tag-eligible and at the gate gets
\* exactly one action attempt and an entry in the result.
C2_AsClaimed ==
    [][\A d \in Dirs :
         EvaluatesActionable(d) =>
            /\ Attempts(d)' = Attempts(d) + 1
            /\ results[d]' = Append(results[d], OwedEntry(d))]_vars

\* C2 as amended: such a cluster gets exactly one action attempt, and an entry in
\* the result if and only if that attempt did not raise.
C2_ActedOnce ==
    [][\A d \in Dirs :
         EvaluatesActionable(d) =>
            /\ Attempts(d)' = Attempts(d) + 1
            /\ results[d]' = IF ActionFails(d) THEN results[d]
                             ELSE Append(results[d], OwedEntry(d))]_vars

\* a dry-run start returned an entry for a cluster whose status reads Stopped
C2_Witness ==
    /\ pc["start"] = "done"
    /\ DRY_RUN("start")
    /\ status["c1"] = <<"S","t","o","p","p","e","d">>
    /\ \E i \in 1..Len(results["start"]) :
          results["start"][i] = [cluster |-> "x", region |-> RegA, action |-> "dry-run"]

\* C5: a failed action call, be it the provider's invalid-state fault or any other
\* exception, is caught and logged and records no entry; the loops go on exactly
\* where a successful call would have left them, and the handler raises for no
\* other reason than a failed enumeration.
C5_FailureIsolated ==
    [][\A d \in Dirs :
         /\ ActionFails(d) =>
               /\ results[d]' = results[d]
               /\ NewLines(d)[Len(NewLines(d))] =
                     Line(IF NewCalls(d)[Len(NewCalls(d))].outcome = "invalid"
                          THEN "invalid-state" ELSE "failure",
                          Current(d).DBClusterIdentifier, CurrentRegion(d))
               /\ Position(d)' = AfterCluster(d)
               /\ page[d]' = page[d]
               /\ pc[d]' = "done" => summary[d]' = <<Summary(d, results[d])>>
         /\ (pc[d] # "raised" /\ pc[d]' = "raised") => EnumerationFails(d)]_vars

\* a handler returned after one call was refused and another failed, with entries
\* for a cluster of a later region
C5_Witness ==
    \E d \in Dirs :
       /\ pc[d] = "done"
       /\ \E i, j, k \in 1..Len(log[d]) :
             /\ i < j /\ j < k
             /\ log[d][i].kind = "invalid-state"
             /\ log[d][j].kind = "failure"
             /\ log[d][k].kind = "initiated" /\ log[d][k].region = RegB
       /\ \E i \in 1..Len(summary[d][1].results) : summary[d][1].results[i].region = RegB

\* C10: when the two functions interleave, an entry is recorded only for a command
\* the provider accepted, the cluster being at the gate status when the command
\* arrived; a command sent on a snapshot the other function made stale is refused,
\* records nothing, and the handler goes on.
C10_OnlyAcceptedRecorded ==
    [][\A d \in Dirs :
         (Processes(d) /\ ~DRY_RUN(d)) =>
            /\ results[d]' # results[d] =>
                  /\ results[d]' = Append(results[d], OwedEntry(d))
                  /\ Lower(status[CurrentCluster(d)]) = (IF d = "start" THEN Stopped ELSE Available)
                  /\ status'[CurrentCluster(d)] = (IF d = "start" THEN Starting ELSE Stopping)
            /\ (EvaluatesActionable(d) /\ ~AtGate(d, [Status |-> status[CurrentCluster(d)]])) =>
                  /\ ActionFails(d)
                  /\ results[d]' = results[d]
                  /\ status' = status
                  /\ Position(d)' = AfterCluster(d)]_vars

\* both handlers returned; stop was refused on the cluster that start had started
\* after stop's describe call
C10_Witness ==
    /\ pc = [d \in Dirs |-> "done"]
    /\ \E i \in 1..Len(results["start"]) :
          results["start"][i] = [cluster |-> "x", region |-> RegB, action |-> "started"]
    /\ \E i \in 1..Len(api["stop"]) :
          api["stop"][i] = Call("stop_db_cluster", RegB, "c4", "invalid")
    /\ results["stop"] = <<>>

IsDryRunEntry(entry) == entry.action = "dry-run"

\* this step is one of function d
StepOf(d) == Position(d)' # Position(d) \/ budget[d]' # budget[d]

\* C4: with DRY_RUN set a function sends the provider no start or stop call and
\* none of its steps changes a status, however often it is invoked; every entry
\* it records is a dry-run entry; and an invocation returns the result list of
\* the one before if no status changed since that one began.
C4_DryRunChangesNothing ==
    [][\A d \in Dirs :
         DRY_RUN(d) =>
            /\ StepOf(d) => status' = status
            /\ Count(api[d]', IsAction) = 0
            /\ Count(results[d]', IsDryRunEntry) = Len(results[d]')
            /\ (pc[d]' = "done" /\ prevResults[d]' # <<>> /\ quiet[d]') =>
                  summary[d]'[1].results = prevResults[d]'[1]]_vars

\* a second dry-run invocation returned, like the first, the two clusters it
\* would have started
C4_Witness ==
    /\ DRY_RUN("start")
    /\ pc["start"] = "done"
    /\ budget["start"] = 0
    /\ quiet["start"]
    /\ prevResults["start"] # <<>>
    /\ Len(summary["start"][1].results) = 2
    /\ status["c1"] = Stopped

\* C1: _should_start and _should_stop return true exactly when the tag set holds
\* the configured key as written and its value equals the configured value up to
\* case; they agree with each other; and the handler logs that verdict for every
\* cluster it evaluates, a tag set without the key raising nothing.
C1_Eligibility ==
    \A c \in Clusters :
       /\ _should_start(TagsOf(c)) <=> HasMatchingTag("start", TagsOf(c))
       /\ _should_stop(TagsOf(c)) <=> HasMatchingTag("stop", TagsOf(c))
       /\ _should_start(TagsOf(c)) <=> _should_stop(TagsOf(c))
       /\ \A d \in Dirs :
             /\ pc[d] # "raised"
             /\ \A i \in 1..Len(log[d]) :
                   (log[d][i].kind = "eval" /\ log[d][i].cluster = Identifier(c)
                      /\ log[d][i].region = RegionOf(c)) =>
                      log[d][i].eligible_by_tag = HasMatchingTag(d, TagsOf(c))

\* a cluster whose only tag has the right value under the key in another case was
\* evaluated, found ineligible, and the handler returned
C1_Witness ==
    \E d \in Dirs :
       /\ pc[d] = "done"
       /\ TAG_KEY(d) = <<"k">>
       /\ DOMAIN TagsOf("c4") = {<<"K">>}
       /\ Lower(TagsOf("c4")[<<"K">>]) = TAG_VALUE(d)
       /\ \E i \in 1..Len(log[d]) :
             /\ log[d][i].kind = "eval" /\ log[d][i].cluster = "x"
             /\ ~log[d][i].eligible_by_tag
       /\ results[d] = <<>>

\* the REGIONS setting as text, nothing when unset
RegionsText(d) == IF env[d].REGIONS = None THEN <<>> ELSE env[d].REGIONS

\* the configured region list, read off the text: between two successive commas
\* (or ends of the text) lies one entry, its outer blanks dropped; entries left
\* with no character are not entries
Configured(d) ==
    LET s == RegionsText(d)
        cuts == {0, Len(s) + 1} \cup {i \in 1..Len(s) : s[i] = ","}
        inked(lo, hi) == {i \in (lo + 1)..(hi - 1) : s[i] # " "}
        starts == {lo \in cuts \ {Len(s) + 1} :
                     inked(lo, CHOOSE hi \in cuts : hi > lo /\ \A m \in cuts : m > lo => m >= hi)
                        # {}}
        entry(lo) ==
            LET hi == CHOOSE h \in cuts : h > lo /\ \A m \in cuts : m > lo => m >= h
                ink == inked(lo, hi)
                from == CHOOSE i \in ink : \A j \in ink : i <= j
                to == CHOOSE i \in ink : \A j \in ink : i >= j
            IN  SubSeq(s, from, to)
        nth(n) == CHOOSE lo \in starts : Cardinality({x \in starts : x < lo}) = n - 1
    IN  [n \in 1..Cardinality(starts) |-> entry(nth(n))]

\* C7: the region resolver always returns a non-empty list: the configured list
\* in its order when there is one, else the single ambient region, or us-east-1
\* when there is none; the handler scans that list and returns it as "regions".
C7_RegionsResolved ==
    \A d \in Dirs :
       /\ _regions_to_check(d) # <<>>
       /\ Configured(d) # <<>> => _regions_to_check(d) = Configured(d)
       /\ Configured(d) = <<>> =>
             _regions_to_check(d) =
                <<IF env[d].region_name = None \/ Len(env[d].region_name) = 0
                  THEN <<"u","s","-","e","a","s","t","-","1">>
                  ELSE env[d].region_name>>
       /\ pc[d] # "idle" => regions[d] = _regions_to_check(d)
       /\ pc[d] = "done" =>
             /\ summary[d][1].regions = regions[d]
             /\ \A n \in 1..Len(regions[d]) :
                   \E i \in 1..Len(api[d]) :
                      /\ api[d][i].op = "describe_db_clusters"
                      /\ api[d][i].region = regions[d][n]

\* REGIONS holds a comma and a blank and no ambient region is known: the handler
\* has scanned us-east-1 and returned it as its regions
C7_Witness ==
    \E d \in Dirs :
       /\ env[d].REGIONS = <<",", " ">>
       /\ env[d].region_name = None
       /\ pc[d] = "done"
       /\ summary[d][1].regions = <<FallbackRegion>>

====
